---- MODULE Spec2Model ----
(***************************************************************************)
(* Voice session of backend/app/api/voice_websocket.py (voice_ws).         *)
(*                                                                         *)
(* Three asyncio tasks share one event loop:                               *)
(*   - the main task (voice_ws): connects the Deepgram STT source, runs    *)
(*     the ingest loop on the websocket and tears the session down;        *)
(*   - the queue consumer (process_transcription_queue), which calls       *)
(*     process_transcription for each dequeued transcript;                 *)
(*   - per turn, the reasoning task (run_agent) and the synthesis task     *)
(*     (generate_tts) that process_transcription creates and awaits.       *)
(* A step of the model is the code between two suspension points (await).  *)
(***************************************************************************)
EXTENDS Integers, Sequences, FiniteSets, TLC

\* ---------------------------------------------------------------- bounds
\* Number of final transcripts the Transcription Source emits in a session.
MaxTurns == 2
\* Number of audio chunks a synthesis stream yields at most.
MaxChunks == 1
\* Number of clock advances observed during a session.
MaxTicks == 1
\* Number of ping frames the peer sends in a session.
MaxPings == 1
\* Number of binary audio frames the peer sends in a session.
MaxAudio == 1

\* ------------------------------------------------------ program constants
\* voice_websocket.py:33
INTERRUPTION_DEBOUNCE_MS == 500

Turns == 1..MaxTurns
\* None for a task handle.
NoTask == 0

\* The clock advances in steps of half a debounce window.
TickMs == INTERRUPTION_DEBOUNCE_MS \div 2
\* time.time() * 1000 at session start: far more than one window after 0.0.
StartTime == 2 * INTERRUPTION_DEBOUNCE_MS
MaxTime == StartTime + MaxTicks * TickMs

\* Texts are sequences of tokens; a token is a word or a whitespace character.
IsSpace(c) == c \in {" ", "\n"}
\* Transcripts the source can deliver: speech, and a whitespace-only transcript.
Utterances == { <<"hello">>, <<" ">> }
\* result["response"] of the agent graph.
ReplyText == <<"Your", " ", "order", " ", "shipped.">>
\* voice_websocket.py:254
ErrorResponse == <<"I'm sorry, I encountered an error. Please try again.">>

RECURSIVE LStrip(_)
LStrip(s) == IF s # <<>> /\ IsSpace(Head(s)) THEN LStrip(Tail(s)) ELSE s
RECURSIVE RStrip(_)
RStrip(s) ==
    IF s # <<>> /\ IsSpace(s[Len(s)]) THEN RStrip(SubSeq(s, 1, Len(s) - 1)) ELSE s
\* str.strip()
StripMut(s) == s
Strip(s) == RStrip(LStrip(s))

VARIABLES
    now,                     \* latest value read from time.time(), ms
    mpc,                     \* position of the main task (voice_ws)
    peer,                    \* the websocket peer: "open" or "gone"
    deepgram_active,         \* voice_ws.deepgram_active
    pings,                   \* ping frames read by the ingest loop
    pongs,                   \* pong frames sent to the peer
    forwarded,               \* audio frames forwarded to the STT source
    srcNext,                 \* next turn id the Transcription Source emits
    queue,                   \* stt_service.transcription_queue
    cpc,                     \* the consumer task: "poll" or "cancelled"
    pc,                      \* per turn: position inside process_transcription
    user_text,               \* per turn: argument of process_transcription
    current_agent_task,      \* voice_ws.current_agent_task (closure variable)
    current_tts_task,        \* voice_ws.current_tts_task (closure variable)
    pt_agent_task,           \* per turn: process_transcription's local
                             \* current_agent_task
    pt_tts_task,             \* per turn: process_transcription's local
                             \* current_tts_task
    agentTask,               \* per turn: state of the run_agent task
    ttsTask,                 \* per turn: state of the generate_tts task
    chunks,                  \* per turn: audio chunks sent so far
    interruption_event,      \* asyncio.Event: is_set()
    last_interruption_time,  \* voice_ws.last_interruption_time
    sent,                    \* frames sent to the peer, in order
    memory,                  \* the add_memory calls, with their outcome
    outcome,                 \* per turn: how process_transcription ended
    arrived,                 \* per turn: what was in flight when the source
                             \* delivered its transcript
    unchecked_chunks,        \* audio chunks sent with no read of
                             \* interruption_event before the send
    generate_audio           \* a call of DeepgramTTSService.generate_audio:
                             \* its arguments and its local tts_text

vars == << now, mpc, peer, deepgram_active, pings, pongs, forwarded,
                    srcNext, queue, cpc, pc,
           user_text, current_agent_task, current_tts_task, pt_agent_task,
           pt_tts_task, agentTask, ttsTask, chunks, interruption_event,
           last_interruption_time, sent, memory, outcome, arrived,
           unchecked_chunks, generate_audio >>


Frame(type, t, text) == [type |-> type, turn |-> t, text |-> text]

\* The frames of turn t, in the order they were sent.
FramesOf(t) == SelectSeq(sent, LAMBDA f : f.turn = t)
\* Their types.
TypesOf(t) == [i \in 1..Len(FramesOf(t)) |-> FramesOf(t)[i].type]
HasFrame(type, t) == \E i \in 1..Len(sent) : sent[i].type = type /\ sent[i].turn = t
CountFrames(type, t) ==
    Cardinality({i \in 1..Len(sent) : sent[i].type = type /\ sent[i].turn = t})

\* asyncio.Task.done()
Done(state) == state \in {"done", "failed", "cancelled"}

\* await task (lines 161 and 226) returns, or raises, once the task is done.
AwaitReturnsMut(state) == TRUE
AwaitReturns(state) == Done(state)


\* ------------------------------------------------------------ websocket
\* Outcomes of ws.send_json / ws.send_bytes: while the peer is connected the
\* frame is sent; once the peer is gone the call raises (WebSocketDisconnect,
\* an Exception).  sent holds the frames the peer was sent.
SendOutcomes == IF peer = "open" THEN {"ok"} ELSE {"raise"}
Sent(o, frame) == IF o = "ok" THEN Append(sent, frame) ELSE sent

\* LangGraphStoreService.add_memory: stores the entry, or logs the error and
\* returns None; it raises nothing but a cancellation.
StoreOutcomes == {"stored", "error"}
\* memory after the call add_memory(text, sender) of turn t with outcome o.
add_memory(o, sender, t, text) ==
    Append(memory, [sender |-> sender, turn |-> t, text |-> text,
                    stored |-> (o = "stored")])
\* The calls add_memory has received for turn t from the given sender.
StoreCalls(sender, t) ==
    {i \in 1..Len(memory) : memory[i].sender = sender /\ memory[i].turn = t}

\* ------------------------------------------------- exception handlers
\* Lines 172-183: after the reasoning result, the reply is stored first.
AfterReasoningMut == "send_response"
AfterReasoning == "store_agent"
\* except asyncio.CancelledError at lines 162-164 and 227-229: return.
Handler162Mut == "fb_send_response"
Handler162 == "returned"
\* except Exception at line 250: send the fixed fallback reply.
Handler250Mut == "returned"
Handler250 == "fb_send_response"
\* except Exception at line 241: send tts_error.
Handler241 == "send_tts_error"
\* except Exception at line 273: log, the turn ends.
Handler273 == "returned"
\* except Exception at line 275: log, the turn ends.
Handler275Mut == "unwound"
Handler275 == "returned"

\* Line 93 is followed by the transcription notice (lines 95-100).
AfterInterruptionMut == "get_memories"
AfterInterruption == "send_transcription"
\* Lines 95-100 are followed by the store of the user's utterance (102-112).
AfterTranscriptionMut == "get_memories"
AfterTranscription == "store_user"
\* Lines 255-258 are followed by the synthesis of the fallback reply (260-272).
AfterFallbackResponseMut == "returned"
AfterFallbackResponseNoStart == "fb_tts"
AfterFallbackResponse == "fb_tts_start"

\* Move turn t to position p; a turn that returns records how it ended.
Goto(t, p, how) ==
    /\ pc' = [pc EXCEPT ![t] = p]
    /\ outcome' = [outcome EXCEPT ![t] = IF p = "returned" THEN how ELSE @]

InProgress(t) == pc[t] \notin {"idle", "returned"}

\* process_transcription_queue, line 284: the consumer awaits
\* process_transcription before it polls the queue again.
AwaitsProcessTranscriptionMut == FALSE
AwaitsProcessTranscription == \E t \in Turns : InProgress(t)

\* --------------------------------------------- interrupt_current_response
\* Lines 41-44, on the closure variables of voice_ws.
AgentActive ==
    current_agent_task # NoTask /\ ~Done(agentTask[current_agent_task])
TtsActive ==
    current_tts_task # NoTask /\ ~Done(ttsTask[current_tts_task])
agent_is_respondingMut == TRUE
agent_is_responding == AgentActive \/ TtsActive
\* Lines 51-53, with current_time the clock value read at line 51.
Debounced(current_time) ==
    current_time - last_interruption_time < INTERRUPTION_DEBOUNCE_MS

\* Values time.time() * 1000 can return: the clock does not run backwards.
ClockReadings == {c \in now..MaxTime : (c - now) % TickMs = 0}

\* Lines 36-84, called for the transcript of turn t.  A cancelled task ends at
\* its next suspension point, so cancel-and-await is one step.
interrupt_current_response(t) ==
    IF ~agent_is_responding
    THEN UNCHANGED << now, last_interruption_time, interruption_event, agentTask,
                      current_agent_task, ttsTask, current_tts_task, sent >>
    ELSE \E current_time \in ClockReadings :
           /\ now' = current_time
           /\ IF Debounced(current_time)
              THEN UNCHANGED << last_interruption_time, interruption_event,
                                agentTask, current_agent_task, ttsTask,
                                current_tts_task, sent >>
              ELSE /\ last_interruption_time' = current_time
                   /\ interruption_event' = TRUE
                   /\ agentTask' =
                        IF AgentActive
                        THEN [agentTask EXCEPT ![current_agent_task] = "cancelled"]
                        ELSE agentTask
                   /\ current_agent_task' =
                        IF AgentActive THEN NoTask ELSE current_agent_task
                   /\ ttsTask' =
                        IF TtsActive
                        THEN [ttsTask EXCEPT ![current_tts_task] = "cancelled"]
                        ELSE ttsTask
                   /\ current_tts_task' =
                        IF TtsActive THEN NoTask ELSE current_tts_task
                   /\ \E o \in SendOutcomes :
                        sent' = Sent(o, Frame("interrupt", t, <<>>))

\* ------------------------------------------------ DeepgramSTTService
\* Events the Deepgram connection hands to _on_message: speech-started (VAD)
\* events and results events, whose first alternative carries a transcript
\* (possibly empty) and which are interim or final.
SourceEvents ==
    [kind : {"SpeechStarted", "Results"},
     transcript : Utterances \cup {<<>>},
     is_final : BOOLEAN]
\* No event.
NoEvent == [kind |-> "none", transcript |-> <<>>, is_final |-> FALSE]
\* _on_message, lines 89-103: the event is put on the queue when it is a
\* results event with a non-empty transcript and is_final is true.
is_final_resultMut(event) ==
    event.kind = "Results" /\ event.transcript # <<>>
is_final_result(event) ==
    event.kind = "Results" /\ event.transcript # <<>> /\ event.is_final
\* asyncio.Queue: get returns the oldest entry and removes it.
NextTranscriptMut(q) == q[Len(q)]
NextTranscript(q) == Head(q)

\* The stage of turn u, from the task it is waiting for.
Stage(u) ==
    IF agentTask[u] = "running" THEN "Reason"
    ELSE IF ttsTask[u] = "running" THEN "Synthesize"
    ELSE IF pc[u] = "fb_tts" THEN "FallbackSynthesize"
    ELSE "none"
\* What is in flight when the source delivers the transcript of an event.
InFlight(event) ==
    IF \E u \in Turns : Stage(u) # "none"
    THEN LET u == CHOOSE v \in Turns : Stage(v) # "none"
         IN [stage |-> Stage(u), turn |-> u, text |-> event.transcript,
             event |-> event]
    ELSE [stage |-> "none", turn |-> NoTask, text |-> event.transcript,
          event |-> event]

\* ------------------------------------------------ DeepgramTTSService
\* deepgram_tts.py works on strings: here a text is a sequence of characters.
\* Length of the texts enumerated exhaustively.
MaxTextLen == 4
\* deepgram_tts.py:97: a result shorter than this is replaced by a cut of the
\* text.
MIN_RESULT_CHARS == 100
\* deepgram_tts.py:126-127 and voice_websocket.py:210-211.
DEFAULT_MAX_CHARS == 1500
DEFAULT_MAX_SENTENCES == 5
\* deepgram_tts.py:102 and 104.
Ellipsis == <<".", ".", ".">>

\* [.!?] and c * n.
IsPunct(c) == c \in {".", "!", "?"}
Rep(c, n) == [i \in 1..n |-> c]

\* clean_text_for_tts, lines 12-52, on texts made of letters, blanks and
\* sentence punctuation: the substitutions of lines 26-49 match markdown
\* characters and runs of newlines only, line 50 strips the text.
clean_text_for_tts(text) == Strip(text)

\* First index >= i of s that holds no punctuation, and no whitespace.
RECURSIVE PunctEnd(_, _)
PunctEnd(s, i) == IF i <= Len(s) /\ IsPunct(s[i]) THEN PunctEnd(s, i + 1) ELSE i
RECURSIVE SpaceEnd(_, _)
SpaceEnd(s, i) == IF i <= Len(s) /\ IsSpace(s[i]) THEN SpaceEnd(s, i + 1) ELSE i
\* ([.!?]+[\s\n]+) matches at i: a run of punctuation followed by whitespace.
MatchAt(s, i) ==
    /\ IsPunct(s[i])
    /\ PunctEnd(s, i) <= Len(s)
    /\ IsSpace(s[PunctEnd(s, i)])
\* re.split(r'([.!?]+[\s\n]+)', s), line 78: the pieces between the matches,
\* each followed by the text of the match, and the rest after the last match.
RECURSIVE re_split(_)
re_split(s) ==
    IF \E i \in 1..Len(s) : MatchAt(s, i)
    THEN LET i == CHOOSE m \in 1..Len(s) :
                    MatchAt(s, m) /\ \A n \in 1..(m - 1) : ~MatchAt(s, n)
             k == SpaceEnd(s, PunctEnd(s, i))
         IN  << SubSeq(s, 1, i - 1), SubSeq(s, i, k - 1) >>
                 \o re_split(SubSeq(s, k, Len(s)))
    ELSE << s >>
\* Lines 81-86: each piece with its punctuation; the rest after the last
\* match is not taken.
combined_sentences(sentences) ==
    [n \in 1..((Len(sentences) - 1) \div 2) |->
        sentences[2 * n - 1] \o sentences[2 * n]]
\* Lines 89-94: the leading sentences that fit within max_chars.
RECURSIVE TakeSentences(_, _, _)
TakeSentences(result, rest, max_chars) ==
    IF rest # <<>> /\ Len(result \o Head(rest)) <= max_chars
    THEN TakeSentences(result \o Head(rest), Tail(rest), max_chars)
    ELSE result
\* str.rfind: the index, from 0, of the last c in s, or -1.
rfind(s, c) ==
    LET I == {i \in 1..Len(s) : s[i] = c}
    IN  IF I = {} THEN -1 ELSE (CHOOSE i \in I : \A j \in I : j <= i) - 1
\* Lines 98-104: cut at max_chars, or at the last blank when that keeps more
\* than 80% of max_chars, and append "...".
TruncateAtWord(cleaned, max_chars) ==
    LET truncated == SubSeq(cleaned, 1, max_chars)
        last_space == rfind(truncated, " ")
    IN  IF 10 * last_space > 8 * max_chars
        THEN SubSeq(truncated, 1, last_space) \o Ellipsis
        ELSE truncated \o Ellipsis
\* create_short_tts_version, lines 55-109.
create_short_tts_version(text, max_chars, max_sentences) ==
    IF text = <<>> THEN <<>>
    ELSE LET cleaned == clean_text_for_tts(text)
             sentences == combined_sentences(re_split(cleaned))
             first == SubSeq(sentences, 1,
                             IF max_sentences < Len(sentences)
                             THEN max_sentences ELSE Len(sentences))
             result == TakeSentences(<<>>, first, max_chars)
         IN  IF Len(cleaned) <= max_chars THEN cleaned
             ELSE IF result = <<>> \/ Len(result) < MIN_RESULT_CHARS
                  THEN TruncateAtWord(cleaned, max_chars)
                  ELSE RStrip(result)

\* The texts generate_audio is called with: every text of at most MaxTextLen
\* characters, and longer ones made of sentences and words.
RECURSIVE TextsOfLen(_)
TextsOfLen(n) ==
    IF n = 0 THEN { <<>> }
    ELSE { Append(s, c) : s \in TextsOfLen(n - 1), c \in {"a", " ", "."} }
ShortTexts == UNION { TextsOfLen(n) : n \in 0..MaxTextLen }
\* A sentence of n letters, and n words of w letters.
Sentence(n) == Rep("a", n) \o <<".", " ">>
Words(w, n) ==
    [i \in 1..(n * (w + 1)) |-> IF i % (w + 1) = 0 THEN " " ELSE "a"]
LongTexts ==
    { Sentence(n1) \o Sentence(n2) \o tail :
        n1 \in {40, 110}, n2 \in {30, 120},
        tail \in { <<>>, Rep("a", 60), Words(8, 12) } }
    \cup { Words(6, 20), Rep("a", 130),
           Rep("a", DEFAULT_MAX_CHARS + 1),
           Sentence(40) \o Words(9, 150),
           Sentence(700) \o Sentence(700) \o Sentence(200) }
TtsCalls ==
    [pc : {"called"}, text : ShortTexts, max_chars : 1..MaxTextLen,
     max_sentences : {1, 2}, tts_text : { <<>> }]
    \cup
    [pc : {"called"}, text : LongTexts,
     max_chars : {100, 125, 160, DEFAULT_MAX_CHARS},
     max_sentences : {1, 2, DEFAULT_MAX_SENTENCES}, tts_text : { <<>> }]
\* No call in progress.
NoCall == [pc |-> "none", text |-> <<>>, max_chars |-> 0, max_sentences |-> 0,
           tts_text |-> <<>>]

\* A reply of the agent graph that is longer than the budget of line 210:
\* three sentences of 700, 700 and 200 letters and a final newline.
LongReply ==
    <<"a*700", ".", " ", "a*700", ".", " ", "a*200", ".", "\n">>
\* response_text, line 172: result["response"] of the turn's reasoning.  The
\* replies alternate between the short and the long one.
response_text(t) == IF t % 2 = 1 THEN ReplyText ELSE LongReply
\* The characters of a token.
TokenChars(tok) ==
    CASE tok = "a*700" -> Rep("a", 700)
      [] tok = "a*200" -> Rep("a", 200)
      [] tok = "Your" -> <<"Y", "o", "u", "r">>
      [] tok = "order" -> <<"o", "r", "d", "e", "r">>
      [] tok = "shipped." -> <<"s", "h", "i", "p", "p", "e", "d", ".">>
      [] tok = "hello" -> <<"h", "e", "l", "l", "o">>
      [] tok = ErrorResponse[1] ->
            <<"I", "'", "m", " ", "s", "o", "r", "r", "y", ",", " ",
            "I", " ", "e", "n", "c", "o", "u", "n", "t", "e", "r",
            "e", "d", " ", "a", "n", " ", "e", "r", "r", "o", "r",
            ".", " ", "P", "l", "e", "a", "s", "e", " ", "t", "r",
            "y", " ", "a", "g", "a", "i", "n", ".">>
      [] OTHER -> << tok >>
\* The string a text stands for, character by character.
RECURSIVE Characters(_)
Characters(text) ==
    IF \A i \in 1..Len(text) : TokenChars(text[i]) = << text[i] >> THEN text
    ELSE TokenChars(Head(text)) \o Characters(Tail(text))
\* Line 188: the text of agent_response.
DisplayedTextMut(t) ==
    create_short_tts_version(Characters(response_text(t)), DEFAULT_MAX_CHARS,
                             DEFAULT_MAX_SENTENCES)
DisplayedText(t) == response_text(t)
\* tts_service.generate_audio(text, max_chars=1500, max_sentences=5), lines
\* 205-212 and 263-270, up to the request to the Deepgram client.
SynthesisCall(text) ==
    [pc |-> "requested", text |-> Characters(text),
     max_chars |-> DEFAULT_MAX_CHARS,
     max_sentences |-> DEFAULT_MAX_SENTENCES,
     tts_text |-> create_short_tts_version(Characters(text), DEFAULT_MAX_CHARS,
                                           DEFAULT_MAX_SENTENCES)]
\* The call of generate_tts in turn t, and the call of the fallback path.
ReplyCall == [t \in Turns |-> SynthesisCall(response_text(t))]
\* The full reply of turn t, character by character.
FullReply == [t \in Turns |-> Characters(response_text(t))]
FallbackCall == SynthesisCall(ErrorResponse)

\* ------------------------------------------------------------------ Init
\* The session after construction (voice_ws up to line 289).
SessionInit ==
    /\ now = StartTime
    /\ mpc = "connect"
    /\ peer = "open"
    /\ deepgram_active = FALSE
    /\ pings = 0
    /\ pongs = 0
    /\ forwarded = 0
    /\ srcNext = 1
    /\ queue = <<>>
    /\ cpc = "poll"
    /\ pc = [t \in Turns |-> "idle"]
    /\ user_text = [t \in Turns |-> <<>>]
    /\ current_agent_task = NoTask
    /\ current_tts_task = NoTask
    /\ pt_agent_task = [t \in Turns |-> NoTask]
    /\ pt_tts_task = [t \in Turns |-> NoTask]
    /\ agentTask = [t \in Turns |-> "none"]
    /\ ttsTask = [t \in Turns |-> "none"]
    /\ chunks = [t \in Turns |-> 0]
    /\ interruption_event = FALSE
    /\ last_interruption_time = 0
    /\ sent = <<>>
    /\ memory = <<>>
    /\ outcome = [t \in Turns |-> "none"]
    /\ arrived = [t \in Turns |-> [stage |-> "none", turn |-> NoTask,
                                    text |-> <<>>, event |-> NoEvent]]
    /\ unchecked_chunks = 0

Init == SessionInit /\ generate_audio = NoCall

\* ------------------------------------------------------- world actions
\* The peer closes the socket.
PeerDisconnect ==
    /\ peer = "open"
    /\ mpc \in {"connect", "loop"}
    /\ peer' = "gone"
    /\ UNCHANGED << now, mpc, deepgram_active, pings, pongs, forwarded,
                    srcNext, queue, cpc, pc,
                    user_text, current_agent_task, current_tts_task,
                    pt_agent_task, pt_tts_task, agentTask, ttsTask, chunks,
                    interruption_event, last_interruption_time, sent, memory,
                    outcome, arrived,
                    unchecked_chunks, generate_audio >>

\* DeepgramSTTService._on_message, lines 96-103: a results event with a
\* non-empty final transcript is put on the queue.
SourceFinal ==
    /\ mpc = "loop"
    /\ srcNext <= MaxTurns
    /\ \E event \in SourceEvents :
         /\ is_final_result(event)
         /\ queue' = Append(queue, [turn |-> srcNext,
                                    text |-> event.transcript])
         /\ arrived' = [arrived EXCEPT ![srcNext] = InFlight(event)]
    /\ srcNext' = srcNext + 1
    /\ UNCHANGED << now, mpc, peer, deepgram_active, pings, pongs, forwarded, cpc, pc, user_text,
                    current_agent_task, current_tts_task, pt_agent_task,
                    pt_tts_task, agentTask, ttsTask, chunks, interruption_event,
                    last_interruption_time, sent, memory, outcome,
                    unchecked_chunks, generate_audio >>
\* _on_message, lines 89-103: a speech-started event, an interim result or a
\* result with an empty transcript is dropped.
SourceDiscarded ==
    /\ mpc = "loop"
    /\ \E event \in SourceEvents : ~is_final_result(event)
    /\ UNCHANGED vars

\* ------------------------------------------------- the queue consumer
\* process_transcription_queue lines 280-284 and process_transcription lines
\* 86-93: dequeue the transcript of turn t, drop it when it is blank,
\* otherwise call interrupt_current_response and go on to send it.
StartTurn(t) ==
    /\ cpc = "poll"
    /\ ~AwaitsProcessTranscription
    /\ queue # <<>>
    /\ NextTranscript(queue).turn = t
    /\ pc[t] = "idle"
    /\ queue' = Tail(queue)
    /\ user_text' = [user_text EXCEPT ![t] = NextTranscript(queue).text]
    /\ IF Strip(NextTranscript(queue).text) = <<>>
       THEN /\ Goto(t, "returned", "blank")
            /\ UNCHANGED << now, last_interruption_time, interruption_event,
                            agentTask, current_agent_task, ttsTask,
                            current_tts_task, sent >>
       ELSE /\ interrupt_current_response(t)
            /\ Goto(t, AfterInterruption, "none")
    /\ UNCHANGED << mpc, peer, deepgram_active, pings, pongs, forwarded,
                    srcNext, cpc,
                    pt_agent_task, pt_tts_task, chunks, memory, arrived,
                    unchecked_chunks, generate_audio >>

\* get_transcription, lines 153-156: the poll times out on an empty queue and
\* returns None; the consumer polls again.
PollTimeout ==
    /\ cpc = "poll"
    /\ ~AwaitsProcessTranscription
    /\ queue = <<>>
    /\ UNCHANGED vars

\* Lines 95-100.
SendTranscription(t) ==
    /\ pc[t] = "send_transcription"
    /\ \E o \in SendOutcomes :
         /\ sent' = Sent(o, Frame("transcription", t, user_text[t]))
         /\ IF o = "raise"
            THEN Goto(t, Handler275, "send_error")
            ELSE Goto(t, AfterTranscription, "none")
    /\ UNCHANGED << now, mpc, peer, deepgram_active, pings, pongs, forwarded,
                    srcNext, queue, cpc,
                    user_text, current_agent_task, current_tts_task,
                    pt_agent_task, pt_tts_task, agentTask, ttsTask, chunks,
                    interruption_event, last_interruption_time, memory,
                    arrived,
                    unchecked_chunks, generate_audio >>

\* Lines 102-123: store the user's utterance, then read and clear the
\* interruption event; a set event ends the turn.
StoreUser(t) ==
    /\ pc[t] = "store_user"
    /\ \E o \in StoreOutcomes :
         memory' = add_memory(o, "user", t, user_text[t])
    /\ interruption_event' = FALSE
    /\ IF interruption_event
       THEN Goto(t, "returned", "interrupted")
       ELSE Goto(t, "get_memories", "none")
    /\ UNCHANGED << now, mpc, peer, deepgram_active, pings, pongs, forwarded,
                    srcNext, queue, cpc,
                    user_text, current_agent_task, current_tts_task,
                    pt_agent_task, pt_tts_task, agentTask, ttsTask, chunks,
                    last_interruption_time, sent, arrived,
                    unchecked_chunks, generate_audio >>

\* Lines 125-159: fetch the history (get_recent_memories returns a list, or []
\* on an error), then create the reasoning task.  The assignment at line 159
\* binds process_transcription's own local current_agent_task: the function
\* declares only message_count nonlocal.
CreateAgentTask(t) ==
    /\ pc[t] = "get_memories"
    /\ pt_agent_task' = [pt_agent_task EXCEPT ![t] = t]
    /\ agentTask' = [agentTask EXCEPT ![t] = "running"]
    /\ Goto(t, "await_agent", "none")
    /\ UNCHANGED << now, mpc, peer, deepgram_active, pings, pongs, forwarded,
                    srcNext, queue, cpc,
                    user_text, current_agent_task, current_tts_task, pt_tts_task,
                    ttsTask, chunks, interruption_event, last_interruption_time,
                    sent, memory, arrived,
                    unchecked_chunks, generate_audio >>

\* run_agent, lines 150-157: agent_graph.ainvoke returns or raises.
AgentFinish(t) ==
    /\ agentTask[t] = "running"
    /\ \E r \in {"done", "failed"} : agentTask' = [agentTask EXCEPT ![t] = r]
    /\ UNCHANGED << now, mpc, peer, deepgram_active, pings, pongs, forwarded,
                    srcNext, queue, cpc,
                    pc, user_text, current_agent_task, current_tts_task,
                    pt_agent_task, pt_tts_task, ttsTask, chunks,
                    interruption_event, last_interruption_time, sent, memory,
                    outcome, arrived,
                    unchecked_chunks, generate_audio >>

\* Lines 160-170: the await of the reasoning task returns.
AwaitAgent(t) ==
    /\ pc[t] = "await_agent"
    /\ AwaitReturns(agentTask[t])
    /\ pt_agent_task' = [pt_agent_task EXCEPT ![t] = NoTask]
    /\ CASE agentTask[t] = "cancelled" -> Goto(t, Handler162, "cancelled")
         [] agentTask[t] = "failed" -> Goto(t, Handler250, "fallback")
         [] OTHER -> IF interruption_event
                     THEN Goto(t, "returned", "interrupted")
                     ELSE Goto(t, AfterReasoning, "none")
    /\ UNCHANGED << now, mpc, peer, deepgram_active, pings, pongs, forwarded,
                    srcNext, queue, cpc,
                    user_text, current_agent_task, current_tts_task, pt_tts_task,
                    agentTask, ttsTask, chunks, interruption_event,
                    last_interruption_time, sent, memory, arrived,
                    unchecked_chunks, generate_audio >>

\* Lines 172-183: store the agent's reply.
StoreAgent(t) ==
    /\ pc[t] = "store_agent"
    /\ \E o \in StoreOutcomes :
         memory' = add_memory(o, "agent", t, response_text(t))
    /\ Goto(t, "send_response", "none")
    /\ UNCHANGED << now, mpc, peer, deepgram_active, pings, pongs, forwarded,
                    srcNext, queue, cpc,
                    user_text, current_agent_task, current_tts_task,
                    pt_agent_task, pt_tts_task, agentTask, ttsTask, chunks,
                    interruption_event, last_interruption_time, sent, arrived,
                    unchecked_chunks, generate_audio >>

\* Lines 185-195: send agent_response, then check the interruption event.
SendResponse(t) ==
    /\ pc[t] = "send_response"
    /\ \E o \in SendOutcomes :
         /\ sent' = Sent(o, Frame("agent_response", t, DisplayedText(t)))
         /\ IF o = "raise"
            THEN Goto(t, Handler250, "fallback")
            ELSE IF interruption_event
                 THEN Goto(t, "returned", "interrupted")
                 ELSE Goto(t, "send_tts_start", "none")
    /\ UNCHANGED << now, mpc, peer, deepgram_active, pings, pongs, forwarded,
                    srcNext, queue, cpc,
                    user_text, current_agent_task, current_tts_task,
                    pt_agent_task, pt_tts_task, agentTask, ttsTask, chunks,
                    interruption_event, last_interruption_time, memory,
                    arrived,
                    unchecked_chunks, generate_audio >>

\* Lines 197-224: send tts_start and create the synthesis task; line 224 binds
\* process_transcription's own local current_tts_task.
SendTtsStart(t) ==
    /\ pc[t] = "send_tts_start"
    /\ \E o \in SendOutcomes :
         /\ sent' = Sent(o, Frame("tts_start", t, <<>>))
         /\ IF o = "raise"
            THEN /\ Goto(t, Handler241, "tts_error")
                 /\ UNCHANGED << pt_tts_task, ttsTask, chunks >>
            ELSE /\ pt_tts_task' = [pt_tts_task EXCEPT ![t] = t]
                 /\ ttsTask' = [ttsTask EXCEPT ![t] = "running"]
                 /\ chunks' = [chunks EXCEPT ![t] = 0]
                 /\ Goto(t, "await_tts", "none")
    /\ UNCHANGED << now, mpc, peer, deepgram_active, pings, pongs, forwarded,
                    srcNext, queue, cpc,
                    user_text, current_agent_task, current_tts_task,
                    pt_agent_task, agentTask, interruption_event,
                    last_interruption_time, memory, arrived,
                    unchecked_chunks, generate_audio >>

\* generate_tts, lines 205-217: the source yields a chunk; the task checks the
\* interruption event and either leaves the loop or sends the chunk.
TtsChunk(t) ==
    /\ ttsTask[t] = "running"
    /\ chunks[t] < MaxChunks
    /\ IF interruption_event
       THEN /\ ttsTask' = [ttsTask EXCEPT ![t] = "done"]
            /\ chunks' = [chunks EXCEPT ![t] = 0]
            /\ UNCHANGED sent
       ELSE \E o \in SendOutcomes :
              /\ sent' = Sent(o, Frame("audio", t, <<>>))
              /\ chunks' = [chunks EXCEPT ![t] = IF o = "raise" THEN 0 ELSE @ + 1]
              /\ ttsTask' = IF o = "raise"
                            THEN [ttsTask EXCEPT ![t] = "failed"]
                            ELSE ttsTask
    /\ UNCHANGED << now, mpc, peer, deepgram_active, pings, pongs, forwarded,
                    srcNext, queue, cpc, pc, user_text, current_agent_task,
                    current_tts_task, pt_agent_task, pt_tts_task, agentTask,
                    interruption_event, last_interruption_time, memory, outcome,
                    arrived,
                    unchecked_chunks,
                    generate_audio >>

\* generate_tts, lines 205-222: the stream ends, or the source raises.
TtsFinish(t) ==
    /\ ttsTask[t] = "running"
    /\ \E r \in {"done", "failed"} : ttsTask' = [ttsTask EXCEPT ![t] = r]
    /\ chunks' = [chunks EXCEPT ![t] = 0]
    /\ UNCHANGED << now, mpc, peer, deepgram_active, pings, pongs, forwarded,
                    srcNext, queue, cpc, pc, user_text, current_agent_task,
                    current_tts_task, pt_agent_task, pt_tts_task, agentTask,
                    interruption_event, last_interruption_time, sent, memory,
                    outcome, arrived,
                    unchecked_chunks,
                    generate_audio >>

\* Lines 225-235: the await of the synthesis task returns.
AwaitTts(t) ==
    /\ pc[t] = "await_tts"
    /\ AwaitReturns(ttsTask[t])
    /\ pt_tts_task' = [pt_tts_task EXCEPT ![t] = NoTask]
    /\ CASE ttsTask[t] = "cancelled" -> Goto(t, Handler162, "cancelled")
         [] ttsTask[t] = "failed" -> Goto(t, Handler241, "tts_error")
         [] OTHER -> IF interruption_event
                     THEN Goto(t, "returned", "interrupted")
                     ELSE Goto(t, "send_tts_end", "none")
    /\ UNCHANGED << now, mpc, peer, deepgram_active, pings, pongs, forwarded,
                    srcNext, queue, cpc,
                    user_text, current_agent_task, current_tts_task,
                    pt_agent_task, agentTask, ttsTask, chunks,
                    interruption_event, last_interruption_time, sent, memory,
                    arrived,
                    unchecked_chunks, generate_audio >>

\* Lines 237-240.
SendTtsEnd(t) ==
    /\ pc[t] = "send_tts_end"
    /\ \E o \in SendOutcomes :
         /\ sent' = Sent(o, Frame("tts_end", t, <<>>))
         /\ IF o = "raise"
            THEN Goto(t, Handler241, "tts_error")
            ELSE Goto(t, "returned", "completed")
    /\ UNCHANGED << now, mpc, peer, deepgram_active, pings, pongs, forwarded,
                    srcNext, queue, cpc,
                    user_text, current_agent_task, current_tts_task,
                    pt_agent_task, pt_tts_task, agentTask, ttsTask, chunks,
                    interruption_event, last_interruption_time, memory,
                    arrived,
                    unchecked_chunks, generate_audio >>

\* Lines 241-248.
SendTtsError(t) ==
    /\ pc[t] = "send_tts_error"
    /\ \E o \in SendOutcomes :
         /\ sent' = Sent(o, Frame("tts_error", t, <<"error">>))
         /\ IF o = "raise"
            THEN Goto(t, Handler250, "fallback")
            ELSE Goto(t, "returned", "tts_error")
    /\ UNCHANGED << now, mpc, peer, deepgram_active, pings, pongs, forwarded,
                    srcNext, queue, cpc,
                    user_text, current_agent_task, current_tts_task,
                    pt_agent_task, pt_tts_task, agentTask, ttsTask, chunks,
                    interruption_event, last_interruption_time, memory,
                    arrived,
                    unchecked_chunks, generate_audio >>

\* Lines 250-258: the fallback reply is sent; it is not stored.
FbSendResponse(t) ==
    /\ pc[t] = "fb_send_response"
    /\ \E o \in SendOutcomes :
         /\ sent' = Sent(o, Frame("agent_response", t, ErrorResponse))
         /\ IF o = "raise"
            THEN Goto(t, Handler275, "send_error")
            ELSE Goto(t, AfterFallbackResponse, "fallback")
    /\ UNCHANGED << now, mpc, peer, deepgram_active, pings, pongs, forwarded,
                    srcNext, queue, cpc,
                    user_text, current_agent_task, current_tts_task,
                    pt_agent_task, pt_tts_task, agentTask, ttsTask, chunks,
                    interruption_event, last_interruption_time, memory,
                    arrived,
                    unchecked_chunks, generate_audio >>

\* Lines 261-262.
FbTtsStart(t) ==
    /\ pc[t] = "fb_tts_start"
    /\ \E o \in SendOutcomes :
         /\ sent' = Sent(o, Frame("tts_start", t, <<>>))
         /\ IF o = "raise"
            THEN Goto(t, Handler273, "send_error")
            ELSE Goto(t, "fb_tts", "none")
    /\ chunks' = [chunks EXCEPT ![t] = 0]
    /\ UNCHANGED << now, mpc, peer, deepgram_active, pings, pongs, forwarded,
                    srcNext, queue, cpc,
                    user_text, current_agent_task, current_tts_task,
                    pt_agent_task, pt_tts_task, agentTask, ttsTask,
                    interruption_event, last_interruption_time, memory,
                    arrived,
                    unchecked_chunks, generate_audio >>

\* Lines 263-271: the fallback stream runs in the consumer itself and sends
\* each chunk without looking at the interruption event.
FbTtsChunk(t) ==
    /\ pc[t] = "fb_tts"
    /\ chunks[t] < MaxChunks
    /\ \E o \in SendOutcomes :
         /\ sent' = Sent(o, Frame("audio", t, <<>>))
         /\ chunks' = [chunks EXCEPT ![t] = IF o = "raise" THEN 0 ELSE @ + 1]
         /\ unchecked_chunks' =
              IF o = "raise" THEN unchecked_chunks ELSE unchecked_chunks + 1
         /\ IF o = "raise"
            THEN Goto(t, Handler273, "send_error")
            ELSE Goto(t, "fb_tts", "none")
    /\ UNCHANGED << now, mpc, peer, deepgram_active, pings, pongs, forwarded,
                    srcNext, queue, cpc, user_text, current_agent_task,
                    current_tts_task, pt_agent_task, pt_tts_task, agentTask,
                    ttsTask, interruption_event, last_interruption_time, memory,
                    arrived,
                    generate_audio >>

\* Lines 263-274: the fallback stream ends and tts_end is sent, or the source
\* raises and the error is logged.
FbTtsFinish(t) ==
    /\ pc[t] = "fb_tts"
    /\ \/ \E o \in SendOutcomes :
            /\ sent' = Sent(o, Frame("tts_end", t, <<>>))
            /\ IF o = "raise"
               THEN Goto(t, Handler273, "send_error")
               ELSE Goto(t, "returned", "fallback")
       \/ /\ Goto(t, Handler273, "fb_tts_failed")
          /\ UNCHANGED sent
    /\ chunks' = [chunks EXCEPT ![t] = 0]
    /\ UNCHANGED << now, mpc, peer, deepgram_active, pings, pongs, forwarded,
                    srcNext, queue, cpc, user_text, current_agent_task,
                    current_tts_task, pt_agent_task, pt_tts_task, agentTask,
                    ttsTask, interruption_event, last_interruption_time, memory,
                    arrived,
                    unchecked_chunks,
                    generate_audio >>

\* ------------------------------------------------------- the main task
\* Line 304: the liveness flag after the STT connection is established.
ActiveAfterConnectMut == FALSE
ActiveAfterConnect == TRUE
\* Lines 412-415: the frame the setup-failure handler sends.
Handler407FrameMut == "ready"
Handler407Frame == "error"
\* Line 362: the frame that answers a ping.
PingReplyMut == "none"
PingReply == "pong"

\* Lines 291-336: the STT connection is established, the handlers are set up
\* and ready is sent; an error sending ready is logged.
ConnectOk ==
    /\ mpc = "connect"
    /\ deepgram_active' = ActiveAfterConnect
    /\ \E o \in SendOutcomes : sent' = Sent(o, Frame("ready", NoTask, <<>>))
    /\ mpc' = "loop"
    /\ UNCHANGED << now, peer, pings, pongs, forwarded, srcNext, queue, cpc, pc,
                    user_text, current_agent_task, current_tts_task,
                    pt_agent_task, pt_tts_task, agentTask, ttsTask, chunks,
                    interruption_event, last_interruption_time, memory, outcome,
                    arrived,
                    unchecked_chunks, generate_audio >>

\* Lines 407-417: the STT connection cannot be established; error is sent.
ConnectFail ==
    /\ mpc = "connect"
    /\ \E o \in SendOutcomes :
         sent' = Sent(o, Frame(Handler407Frame, NoTask,
                               <<"Failed to connect">>))
    /\ mpc' = "cancel_consumer"
    /\ UNCHANGED << now, peer, deepgram_active, pings, pongs, forwarded, srcNext, queue,
                    cpc, pc, user_text, current_agent_task, current_tts_task,
                    pt_agent_task, pt_tts_task, agentTask, ttsTask, chunks,
                    interruption_event, last_interruption_time, memory, outcome,
                    arrived,
                    unchecked_chunks, generate_audio >>

\* Lines 341-365, a text frame {"type": "ping"}: pong is sent.
RecvPing ==
    /\ mpc = "loop"
    /\ peer = "open"
    /\ pings < MaxPings
    /\ pings' = pings + 1
    /\ \E o \in SendOutcomes :
         pongs' = IF o = "ok" /\ PingReply = "pong" THEN pongs + 1 ELSE pongs
    /\ UNCHANGED << now, mpc, peer, deepgram_active, forwarded, srcNext, queue, cpc,
                    pc, user_text, current_agent_task, current_tts_task,
                    pt_agent_task, pt_tts_task, agentTask, ttsTask, chunks,
                    interruption_event, last_interruption_time, sent, memory,
                    outcome, arrived,
                    unchecked_chunks, generate_audio >>

\* Lines 347-365: a blank text frame, text that is not JSON, or an object
\* whose type is neither stop nor ping: the loop reads the next frame.
RecvIgnored ==
    /\ mpc = "loop"
    /\ peer = "open"
    /\ UNCHANGED vars

\* Lines 353-354 and 392-394: the text is JSON but no object, so data.get
\* raises AttributeError, which json.JSONDecodeError does not catch; the
\* handler at line 392 ends the loop.
RecvNonObject ==
    /\ mpc = "loop"
    /\ peer = "open"
    /\ mpc' = "finally_stt"
    /\ UNCHANGED << now, peer, deepgram_active, pings, pongs, forwarded, srcNext,
                    queue, cpc, pc, user_text, current_agent_task,
                    current_tts_task, pt_agent_task, pt_tts_task, agentTask,
                    ttsTask, chunks, interruption_event, last_interruption_time,
                    sent, memory, outcome, arrived,
                    unchecked_chunks, generate_audio >>

\* Lines 367-388, a binary frame: forwarded while deepgram_active; a closed
\* STT connection ends the loop, any other error is logged.
RecvAudio ==
    /\ mpc = "loop"
    /\ peer = "open"
    /\ forwarded < MaxAudio
    /\ IF deepgram_active
       THEN \E o \in {"ok", "closed", "error"} :
              /\ forwarded' = IF o = "ok" THEN forwarded + 1 ELSE forwarded
              /\ deepgram_active' = (o # "closed")
              /\ mpc' = IF o = "closed" THEN "finally_stt" ELSE mpc
       ELSE UNCHANGED << forwarded, deepgram_active, mpc >>
    /\ UNCHANGED << now, peer, pings, pongs, srcNext, queue, cpc, pc, user_text,
                    current_agent_task, current_tts_task, pt_agent_task,
                    pt_tts_task, agentTask, ttsTask, chunks, interruption_event,
                    last_interruption_time, sent, memory, outcome, arrived,
                    unchecked_chunks, generate_audio >>

\* Lines 356-359: {"type": "stop"} ends the loop.
RecvStop ==
    /\ mpc = "loop"
    /\ peer = "open"
    /\ mpc' = "finally_stt"
    /\ UNCHANGED << now, peer, deepgram_active, pings, pongs, forwarded, srcNext, queue,
                    cpc, pc, user_text, current_agent_task, current_tts_task,
                    pt_agent_task, pt_tts_task, agentTask, ttsTask, chunks,
                    interruption_event, last_interruption_time, sent, memory,
                    outcome, arrived,
                    unchecked_chunks, generate_audio >>

\* Lines 341-344 and 390-394: the socket is closed; the loop ends.
RecvDisconnect ==
    /\ mpc = "loop"
    /\ peer = "gone"
    /\ mpc' = "finally_stt"
    /\ UNCHANGED << now, peer, deepgram_active, pings, pongs, forwarded, srcNext, queue,
                    cpc, pc, user_text, current_agent_task, current_tts_task,
                    pt_agent_task, pt_tts_task, agentTask, ttsTask, chunks,
                    interruption_event, last_interruption_time, sent, memory,
                    outcome, arrived,
                    unchecked_chunks, generate_audio >>

\* Lines 395-405: the source is marked inactive, the listener is cancelled
\* and the STT connection is left.
FinallyStt ==
    /\ mpc = "finally_stt"
    /\ deepgram_active' = FALSE
    /\ mpc' = "cancel_consumer"
    /\ UNCHANGED << now, peer, pings, pongs, forwarded, srcNext, queue, cpc, pc,
                    user_text, current_agent_task, current_tts_task,
                    pt_agent_task, pt_tts_task, agentTask, ttsTask, chunks,
                    interruption_event, last_interruption_time, sent, memory,
                    outcome, arrived,
                    unchecked_chunks, generate_audio >>

\* Lines 162-164 and 227-229: process_transcription catches the CancelledError
\* raised at the await of its reasoning or synthesis task, and returns.
CatchesCancelledError(p) == p \in {"await_agent", "await_tts"}

\* Lines 419-421, transcription_task.cancel().  asyncio raises CancelledError
\* in the consumer at the await it is suspended in, after cancelling the task
\* it awaits there.  At the queue poll and at a send or a store nothing
\* catches it and the consumer ends; where process_transcription catches it
\* the turn returns and the consumer goes on to poll the queue.
CancelConsumer ==
    /\ mpc = "cancel_consumer"
    /\ mpc' = "await_consumer"
    /\ IF AwaitsProcessTranscription
       THEN LET t == CHOOSE u \in Turns : InProgress(u) IN
            /\ Goto(t, IF CatchesCancelledError(pc[t]) THEN Handler162
                        ELSE "returned", "cancelled")
            /\ agentTask' = IF agentTask[t] = "running"
                            THEN [agentTask EXCEPT ![t] = "cancelled"]
                            ELSE agentTask
            /\ ttsTask' = IF ttsTask[t] = "running"
                          THEN [ttsTask EXCEPT ![t] = "cancelled"]
                          ELSE ttsTask
            /\ pt_agent_task' = [pt_agent_task EXCEPT ![t] = NoTask]
            /\ pt_tts_task' = [pt_tts_task EXCEPT ![t] = NoTask]
            /\ chunks' = [chunks EXCEPT ![t] = 0]
            /\ cpc' = IF CatchesCancelledError(pc[t]) THEN cpc ELSE "cancelled"
       ELSE /\ cpc' = "cancelled"
            /\ UNCHANGED << pc, outcome, agentTask, ttsTask, pt_agent_task,
                            pt_tts_task, chunks >>
    /\ UNCHANGED << now, peer, deepgram_active, pings, pongs, forwarded, srcNext, queue,
                    user_text, current_agent_task, current_tts_task,
                    interruption_event, last_interruption_time, sent, memory,
                    arrived,
                    unchecked_chunks, generate_audio >>

\* Lines 422-430: the await of the cancelled consumer returns once the
\* consumer has ended; then the websocket is closed.
CloseConnection ==
    /\ mpc = "await_consumer"
    /\ cpc = "cancelled"
    /\ mpc' = "closed"
    /\ UNCHANGED << now, peer, deepgram_active, pings, pongs, forwarded, srcNext, queue,
                    cpc, pc, user_text, current_agent_task, current_tts_task,
                    pt_agent_task, pt_tts_task, agentTask, ttsTask, chunks,
                    interruption_event, last_interruption_time, sent, memory,
                    outcome, arrived,
                    unchecked_chunks, generate_audio >>

\* ------------------------------------------------------- specification
TurnStep(t) ==
    \/ StartTurn(t)
    \/ SendTranscription(t)
    \/ StoreUser(t)
    \/ CreateAgentTask(t)
    \/ AgentFinish(t)
    \/ AwaitAgent(t)
    \/ StoreAgent(t)
    \/ SendResponse(t)
    \/ SendTtsStart(t)
    \/ TtsChunk(t)
    \/ TtsFinish(t)
    \/ AwaitTts(t)
    \/ SendTtsEnd(t)
    \/ SendTtsError(t)
    \/ FbSendResponse(t)
    \/ FbTtsStart(t)
    \/ FbTtsChunk(t)
    \/ FbTtsFinish(t)

Teardown == FinallyStt \/ CancelConsumer \/ CloseConnection

Next ==
    \/ PeerDisconnect
    \/ SourceFinal
    \/ SourceDiscarded
    \/ PollTimeout
    \/ ConnectOk
    \/ ConnectFail
    \/ RecvPing
    \/ RecvIgnored
    \/ RecvNonObject
    \/ RecvAudio
    \/ RecvStop
    \/ RecvDisconnect
    \/ FinallyStt
    \/ CancelConsumer
    \/ CloseConnection
    \/ \E t \in Turns : TurnStep(t)

Spec == Init /\ [][Next]_vars

\* ------------------------------------------ generate_audio on its own
sessionVars ==
    << now, mpc, peer, deepgram_active, pings, pongs, forwarded, srcNext,
       queue, cpc, pc, user_text, current_agent_task, current_tts_task,
       pt_agent_task, pt_tts_task, agentTask, ttsTask, chunks,
       interruption_event, last_interruption_time, sent, memory, outcome,
       arrived, unchecked_chunks >>
\* generate_audio is called with a text and a budget.
TtsInit == SessionInit /\ generate_audio \in TtsCalls
\* deepgram_tts.py line 144.
CreateShortVersion ==
    /\ generate_audio.pc = "called"
    /\ generate_audio' =
         [generate_audio EXCEPT
            !.pc = "shortened",
            !.tts_text = create_short_tts_version(
                            generate_audio.text, generate_audio.max_chars,
                            generate_audio.max_sentences)]
    /\ UNCHANGED sessionVars
\* Lines 146-147: nothing to say.
SkipSynthesis ==
    /\ generate_audio.pc = "shortened"
    /\ generate_audio.tts_text = <<>>
    /\ generate_audio' = [generate_audio EXCEPT !.pc = "returned"]
    /\ UNCHANGED sessionVars
\* Lines 149-155: tts_text is handed to the Deepgram client.
RequestSynthesis ==
    /\ generate_audio.pc = "shortened"
    /\ generate_audio.tts_text # <<>>
    /\ generate_audio' = [generate_audio EXCEPT !.pc = "requested"]
    /\ UNCHANGED sessionVars
TtsNext == CreateShortVersion \/ SkipSynthesis \/ RequestSynthesis
TtsSpec == TtsInit /\ [][TtsNext]_vars

\* The event loop runs every task that is ready, and the reasoning and
\* synthesis services answer: the steps of the consumer, of the tasks it
\* awaits and of the teardown are taken when they stay enabled.  What the
\* peer, the clock and the Transcription Source do is not forced.
FairSpec ==
    /\ Spec
    /\ \A t \in Turns : WF_vars(TurnStep(t))
    /\ WF_vars(Teardown)


\* ================================================================ claims
\* The session is open: the ingest loop is reading and the peer is there.
SessionOpen == mpc = "loop" /\ peer = "open"

\* The frames of turn t other than the interrupt it may have triggered.
TurnTypes(t) ==
    LET fs == SelectSeq(sent, LAMBDA f : f.turn = t /\ f.type # "interrupt")
    IN [i \in 1..Len(fs) |-> fs[i].type]

\* The transcript of turn t arrived while the reasoning task or the synthesis
\* task of another turn was running, and it is not blank.
BargeIn(t) ==
    /\ arrived[t].stage \in {"Reason", "Synthesize"}
    /\ Strip(arrived[t].text) # <<>>

\* ---------------------------------------------------------------- C1
\* C1: in every reachable state at most one turn is being processed, at
\* most one reasoning task is running and at most one synthesis stream is
\* open, whatever the timing of the final transcripts.
C1_AtMostOneActive ==
    /\ Cardinality({t \in Turns : InProgress(t)}) <= 1
    /\ Cardinality({t \in Turns : agentTask[t] = "running"}) <= 1
    /\ Cardinality({t \in Turns : ttsTask[t] = "running" \/ pc[t] = "fb_tts"}) <= 1

\* A non-blank transcript is waiting in the queue while a synthesis task runs.
C1_Witness ==
    \E t \in Turns :
      /\ ttsTask[t] = "running"
      /\ queue # <<>>
      /\ Strip(Head(queue).text) # <<>>

\* ---------------------------------------------------------------- C2
\* C2: a non-blank final transcript that arrives while a turn is in Reason or
\* Synthesize, with no interruption in the last 500 ms, cancels that turn and
\* the peer is sent interrupt: the new utterance does not wait until the turn
\* in flight has finished on its own.  Stated for an open session in which no
\* interruption has happened yet (last_interruption_time is still 0.0, more
\* than a window before any clock value): the turn in flight never runs to
\* its normal end, and the new turn does not start without its interrupt.
C2_BargeInCancels ==
    \A t \in Turns :
      (/\ BargeIn(t)
       /\ SessionOpen
       /\ last_interruption_time = 0
       /\ now - last_interruption_time >= INTERRUPTION_DEBOUNCE_MS)
      => /\ outcome[arrived[t].turn] # "completed"
         /\ pc[t] # "idle" => HasFrame("interrupt", t)

\* ---------------------------------------------------------------- C3
\* C3: a turn that ran to its end with no interruption and no failure has
\* sent exactly transcription, agent_response, tts_start, audio chunks and
\* tts_end, in this order.
C3_OrderingLaw ==
    \A t \in Turns :
      outcome[t] = "completed" =>
        LET ty == TurnTypes(t) IN
        /\ Len(ty) >= 4
        /\ ty[1] = "transcription"
        /\ ty[2] = "agent_response"
        /\ ty[3] = "tts_start"
        /\ ty[Len(ty)] = "tts_end"
        /\ \A i \in 4..(Len(ty) - 1) : ty[i] = "audio"

\* A turn has completed and its stream carried an audio chunk.
C3_Witness ==
    \E t \in Turns : outcome[t] = "completed" /\ CountFrames("audio", t) >= 1

\* ---------------------------------------------------------------- C8
\* C8: while the reasoning (synthesis) task of a turn runs, the handle
\* current_agent_task (current_tts_task) that interrupt_current_response
\* tests refers to it, and the handle is None when no such task runs.
C8_HandlesTrackTasks ==
    /\ \A t \in Turns : agentTask[t] = "running" => current_agent_task = t
    /\ \A t \in Turns : ttsTask[t] = "running" => current_tts_task = t
    /\ (\A t \in Turns : agentTask[t] # "running") => current_agent_task = NoTask
    /\ (\A t \in Turns : ttsTask[t] # "running") => current_tts_task = NoTask


\* ---------------------------------------------------------------- C5
\* C5: when an interruption (the user speaks again: a non-blank final
\* transcript arrives) occurs while a turn is in Synthesize, no tts_end is
\* ever sent for that turn, and the turn of the new utterance starts with
\* exactly one interrupt.  Stated, like C2, for an open session before any
\* interruption has been executed.
C5_CancellationFrames ==
    \A t \in Turns :
      (/\ arrived[t].stage = "Synthesize"
       /\ Strip(arrived[t].text) # <<>>
       /\ SessionOpen
       /\ last_interruption_time = 0)
      => /\ ~HasFrame("tts_end", arrived[t].turn)
         /\ pc[t] # "idle" => CountFrames("interrupt", t) = 1

\* ---------------------------------------------------------------- C6
\* C6, as claimed: when a turn is interrupted during Synthesize (a non-blank
\* final transcript arrives while its synthesis task runs), the Memory Store
\* has received no agent entry for that turn.
C6_NoAgentEntry ==
    \A t \in Turns :
      (arrived[t].stage = "Synthesize" /\ Strip(arrived[t].text) # <<>>)
      => StoreCalls("agent", arrived[t].turn) = {}

\* C6, amended: when a turn is interrupted during Synthesize, the Memory Store
\* has already received exactly one agent entry for that turn, carrying the
\* full reply: add_memory is called right after reasoning, before
\* agent_response and before synthesis, and nothing takes the entry back.
C6_AgentEntryPrecedesSynthesis ==
    \A t \in Turns :
      (arrived[t].stage = "Synthesize" /\ Strip(arrived[t].text) # <<>>)
      => /\ Cardinality(StoreCalls("agent", arrived[t].turn)) = 1
         /\ \A i \in StoreCalls("agent", arrived[t].turn) :
              memory[i].text = response_text(arrived[t].turn)

\* A non-blank transcript has arrived during the synthesis of a turn whose
\* reply the store accepted.
C6_Witness ==
    \E t \in Turns :
      /\ arrived[t].stage = "Synthesize"
      /\ Strip(arrived[t].text) # <<>>
      /\ \E i \in StoreCalls("agent", arrived[t].turn) : memory[i].stored

\* ---------------------------------------------------------------- C9
\* C9: teardown always completes: once the session tears down (the ingest loop
\* has ended and transcription_task.cancel() is due), the await of the
\* cancelled consumer at line 423 returns and the connection is closed,
\* wherever the consumer was suspended when it was cancelled.
C9_TeardownCompletes == (mpc = "cancel_consumer") ~> (mpc = "closed")

\* --------------------------------------------------------------- C10
\* The peer has a terminal signal for turn t: an agent_response or tts_error
\* of the turn, or the interrupt a later utterance triggered.
Terminal(t) ==
    \/ HasFrame("agent_response", t)
    \/ HasFrame("tts_error", t)
    \/ \E i \in 1..Len(sent) : sent[i].type = "interrupt" /\ sent[i].turn > t

\* C10: every accepted final transcript (transcription was sent) is
\* eventually followed by a terminal signal for its turn, as long as the
\* session stays open.
C10_TerminalSignal ==
    \A t \in Turns :
      (HasFrame("transcription", t) /\ SessionOpen)
        ~> (Terminal(t) \/ ~SessionOpen)

\* The reasoning call of an accepted turn failed and the peer, still there,
\* was sent the fallback reply.
C10_Witness ==
    \E t \in Turns :
      /\ SessionOpen
      /\ HasFrame("transcription", t)
      /\ agentTask[t] = "failed"
      /\ \E i \in 1..Len(sent) :
           /\ sent[i].type = "agent_response"
           /\ sent[i].turn = t
           /\ sent[i].text = ErrorResponse


\* --------------------------------------------------------------- C11
\* The add_memory calls made for turn t.
TurnStoreCalls(t) == {i \in 1..Len(memory) : memory[i].turn = t}

\* C11: once the reasoning task or the synthesis task of a turn is cancelled,
\* no step sends another frame of that turn (agent_response, tts_start, audio,
\* tts_end, tts_error) and no step makes another Memory Store call for it.
C11_NoEffectAfterCancel ==
    [][\A t \in Turns :
         (agentTask[t] = "cancelled" \/ ttsTask[t] = "cancelled")
         => /\ FramesOf(t)' = FramesOf(t)
            /\ TurnStoreCalls(t)' = TurnStoreCalls(t)]_vars

\* A task of a turn was cancelled, the peer is still connected and the
\* consumer is still running, so a further send would reach the peer.
C11_Witness ==
    \E t \in Turns :
      /\ agentTask[t] = "cancelled" \/ ttsTask[t] = "cancelled"
      /\ HasFrame("transcription", t)
      /\ peer = "open"
      /\ cpc = "poll"


\* --------------------------------------------------------------- C12
\* The fallback reply of turn t was sent to the peer.
FallbackSent(t) ==
    \E i \in 1..Len(sent) : sent[i] = Frame("agent_response", t, ErrorResponse)

\* C12: when the reasoning call of a turn failed and the turn has returned
\* after sending the fallback reply, the Memory Store has received that
\* fallback text as the agent's entry of the turn.
C12_FallbackPersisted ==
    \A t \in Turns :
      (agentTask[t] = "failed" /\ pc[t] = "returned" /\ FallbackSent(t))
      => \E i \in StoreCalls("agent", t) : memory[i].text = ErrorResponse

\* --------------------------------------------------------------- C13
\* The frames of a turn that spoke a reply: transcription, agent_response,
\* tts_start, audio chunks, tts_end.
FullBracket(ty) ==
    /\ Len(ty) >= 4
    /\ ty[1] = "transcription"
    /\ ty[2] = "agent_response"
    /\ ty[3] = "tts_start"
    /\ ty[Len(ty)] = "tts_end"
    /\ \A i \in 4..(Len(ty) - 1) : ty[i] = "audio"

\* C13: when the reasoning call of a turn failed and the turn has returned,
\* then, unless the synthesis source failed, the peer went away or the session
\* was torn down meanwhile, the turn's frames are transcription, the fallback
\* agent_response, tts_start, audio chunks, tts_end, in this order; and while
\* the ingest loop runs the consumer has not ended: it polls the queue for
\* the next transcript.
C13_FallbackBracket ==
    \A t \in Turns :
      (agentTask[t] = "failed" /\ pc[t] = "returned")
      => /\ outcome[t] \notin {"fb_tts_failed", "send_error", "cancelled"}
            => /\ FullBracket(TurnTypes(t))
               /\ FallbackSent(t)
               /\ CountFrames("agent_response", t) = 1
         /\ mpc = "loop" => cpc = "poll"

\* The reasoning call of turn 1 failed, its fallback reply was spoken with at
\* least one chunk, and the next transcript was accepted.
C13_Witness ==
    /\ agentTask[1] = "failed"
    /\ outcome[1] = "fallback"
    /\ CountFrames("audio", 1) >= 1
    /\ HasFrame("transcription", 2)

\* --------------------------------------------------------------- C14
\* C14: when the synthesis source failed during a stream of a turn (the stream
\* of the reply or of the fallback reply) and the turn has returned with the
\* peer connected, the peer was sent tts_error and no tts_end for that turn,
\* and no agent_response was added to the one the turn had sent.
C14_SynthesisFailureReported ==
    \A t \in Turns :
      (/\ pc[t] = "returned"
       /\ outcome[t] \in {"tts_error", "fb_tts_failed"}
       /\ peer = "open")
      => /\ HasFrame("tts_error", t)
         /\ ~HasFrame("tts_end", t)
         /\ CountFrames("agent_response", t) = 1

\* --------------------------------------------------------------- C15
AgentOutput == {"agent_response", "tts_start", "audio", "tts_end", "tts_error"}

\* C15: every agent_response, tts_start, audio chunk, tts_end and tts_error of
\* a turn is sent after the transcription notification of that turn.
C15_TranscriptionFirst ==
    \A i \in 1..Len(sent) :
      (sent[i].turn \in Turns /\ sent[i].type \in AgentOutput)
      => \E j \in 1..(i - 1) :
           sent[j].type = "transcription" /\ sent[j].turn = sent[i].turn

\* Each kind of turn has produced agent output: one turn spoke the fallback
\* reply and the other its own reply.
C15_Witness ==
    \E t, u \in Turns :
      /\ FallbackSent(t) /\ HasFrame("audio", t)
      /\ ~FallbackSent(u) /\ HasFrame("tts_end", u)


\* --------------------------------------------------------------- C16
\* C16: every audio chunk sent to the peer follows a tts_start of its own turn
\* with nothing but audio chunks of that turn in between (so no tts_end,
\* tts_error or interrupt), and no audio chunk of a turn follows a tts_end of
\* that turn.
C16_AudioInsideBracket ==
    \A i \in 1..Len(sent) :
      sent[i].type = "audio"
      => /\ \E j \in 1..(i - 1) :
              /\ sent[j].type = "tts_start"
              /\ sent[j].turn = sent[i].turn
              /\ \A k \in (j + 1)..(i - 1) :
                   sent[k].type = "audio" /\ sent[k].turn = sent[i].turn
         /\ \A j \in 1..(i - 1) :
              ~(sent[j].type = "tts_end" /\ sent[j].turn = sent[i].turn)

\* Both kinds of stream have sent a chunk and were closed with tts_end.
C16_Witness ==
    \E t, u \in Turns :
      /\ FallbackSent(t) /\ HasFrame("audio", t) /\ HasFrame("tts_end", t)
      /\ ~FallbackSent(u) /\ HasFrame("audio", u) /\ HasFrame("tts_end", u)

\* --------------------------------------------------------------- C18
\* No reasoning task and no synthesis task is running.
NothingActive ==
    \A u \in Turns : agentTask[u] # "running" /\ ttsTask[u] # "running"

\* C18: a call of interrupt_current_response (the step that takes a non-blank
\* transcript from the queue) made while no pipeline task and no synthesis
\* task is active sends nothing and leaves last_interruption_time, the
\* InterruptionSignal, both task handles and the tasks unchanged.
C18_NoOpWhenIdle ==
    [][\A t \in Turns :
         (pc[t] = "idle" /\ pc'[t] # "idle" /\ outcome'[t] # "blank"
          /\ NothingActive)
         => /\ sent' = sent
            /\ last_interruption_time' = last_interruption_time
            /\ interruption_event' = interruption_event
            /\ current_agent_task' = current_agent_task
            /\ current_tts_task' = current_tts_task
            /\ agentTask' = agentTask
            /\ ttsTask' = ttsTask]_vars

\* The call was made for the second transcript, after a turn that ran to its
\* end, and the peer is connected.
C18_Witness ==
    /\ outcome[1] = "completed"
    /\ pc[2] = "send_transcription"
    /\ peer = "open"

C20_TurnStartSequence ==
    \A t \in Turns :
      /\ \A i, j \in 1..Len(sent) :
           (/\ sent[i].turn = t /\ sent[i].type = "interrupt"
            /\ sent[j].turn = t /\ sent[j].type = "transcription") => i < j
      /\ StoreCalls("user", t) # {} => HasFrame("transcription", t)
      /\ Cardinality(StoreCalls("user", t)) <= 1
      /\ \A i \in StoreCalls("user", t) : memory[i].text = user_text[t]
      /\ \A i \in StoreCalls("user", t), j \in StoreCalls("agent", t) : i < j
      /\ agentTask[t] # "none" => Cardinality(StoreCalls("user", t)) = 1

\* The reasoning task of an accepted turn runs and the store took the user's
\* utterance.
C20_Witness ==
    \E t \in Turns :
      /\ agentTask[t] = "running"
      /\ HasFrame("transcription", t)
      /\ \E i \in StoreCalls("user", t) : memory[i].stored


\* --------------------------------------------------------------- C21
\* C21: once teardown has begun no new turn is started.  Stated for the
\* latest point teardown can be said to have begun, after
\* transcription_task.cancel() was called at line 421: from then on no frame
\* is sent to the peer and no Memory Store call is made.
C21_NoTurnAfterTeardown ==
    [][(mpc = "await_consumer" \/ mpc = "closed")
       => (sent' = sent /\ memory' = memory)]_vars


\* --------------------------------------------------------------- C22
\* C22: reading a text frame that is no recognized control record (blank text,
\* text that is not JSON, JSON that is no object, an object whose type is
\* missing or unknown) sends nothing and leaves the ingest loop reading.
C22_MalformedIgnored ==
    [][(RecvIgnored \/ RecvNonObject)
       => (mpc' = "loop" /\ sent' = sent /\ pongs' = pongs)]_vars

\* --------------------------------------------------------------- C23
\* C23: a binary frame whose forwarding to the Transcription Source fails,
\* the closed source connection included, leaves the ingest loop reading.
C23_AudioFailureNotFatal ==
    [][RecvAudio => mpc' = "loop"]_vars


\* --------------------------------------------------------------- C24
\* The peer was sent the error record of a setup failure.
SetupErrorSent == HasFrame("error", NoTask)

\* C24: when the STT connection cannot be established and the peer is there,
\* the peer is sent an error record; in a session that sent it, ready was not
\* sent, error is the only frame, no audio was forwarded, the ingest loop
\* never runs, the consumer is cancelled by line 421 and the connection is
\* eventually closed.
C24_SetupFailureFatal ==
    /\ [][(ConnectFail /\ peer = "open") => SetupErrorSent']_vars
    /\ [](SetupErrorSent
          => /\ ~HasFrame("ready", NoTask)
             /\ Len(sent) = 1
             /\ forwarded = 0
             /\ ~deepgram_active
             /\ mpc \in {"cancel_consumer", "await_consumer", "closed"}
             /\ mpc \in {"await_consumer", "closed"} => cpc = "cancelled")
    /\ (SetupErrorSent ~> (mpc = "closed"))

\* The setup failed, the peer was told and the connection was closed.
C24_Witness == SetupErrorSent /\ mpc = "closed" /\ cpc = "cancelled"

\* --------------------------------------------------------------- C25
\* C25: the step that reads a ping sends exactly one pong, sends nothing else
\* and leaves the ingest loop reading, whatever the consumer is doing; every
\* ping read so far has its pong; the step that reads stop sends nothing and
\* ends the loop.
C25_PingPong ==
    /\ [][/\ RecvPing => (/\ pongs' = pongs + 1
                          /\ sent' = sent
                          /\ mpc' = "loop")
          /\ RecvStop => (/\ pongs' = pongs
                          /\ sent' = sent
                          /\ mpc' = "finally_stt")]_vars
    /\ [](pongs = pings)

\* A ping was answered and a turn is in its Reason or Synthesize stage.
C25_Witness ==
    /\ pings = 1
    /\ pongs = 1
    /\ \E t \in Turns : Stage(t) \in {"Reason", "Synthesize"}

Popped == srcNext - 1 - Len(queue)

\* C27: the queue holds, in push order, exactly the transcripts pushed and
\* not yet taken; every transcript pushed before them has been handed to
\* process_transcription once, with the text that was pushed; nothing else
\* has been handed over.
C27_QueueFifo ==
    /\ Popped >= 0
    /\ \A i \in 1..Len(queue) :
         /\ queue[i].turn = Popped + i
         /\ queue[i].text = arrived[Popped + i].text
         /\ pc[Popped + i] = "idle"
    /\ \A t \in Turns :
         /\ t <= Popped => (pc[t] # "idle" /\ user_text[t] = arrived[t].text)
         /\ t >= srcNext => pc[t] = "idle"

\* The second transcript was pushed while the first turn was running and is
\* still queued.
C27_Witness ==
    /\ Len(queue) = 1
    /\ srcNext = 3
    /\ arrived[2].stage # "none"
    /\ InProgress(1)

\* --------------------------------------------------------------- C28
\* C28: every transcript that reached the queue comes from a results event
\* with a non-empty transcript whose is_final is true; speech-started events,
\* interim results and empty results reach neither the queue nor a turn.
C28_OnlyFinalEnqueued ==
    /\ \A t \in Turns :
         IF t < srcNext
         THEN /\ arrived[t].event.kind = "Results"
              /\ arrived[t].event.is_final
              /\ arrived[t].event.transcript # <<>>
         ELSE pc[t] = "idle" /\ arrived[t].event = NoEvent
    /\ \A i \in 1..Len(queue) : queue[i].text # <<>>

\* Both transcripts of the session were pushed and the first started a turn.
C28_Witness == srcNext = 3 /\ pc[1] # "idle"

\* --------------------------------------------------------------- C29
\* C29: no failure inside a turn ends the consumer or leaves it stuck in the
\* turn: the consumer ends only by teardown's cancel, and a turn in progress
\* always has a next step, so it returns and the queue is polled again.
C29_FailureStaysInTurn ==
    /\ cpc = "cancelled" => mpc \in {"await_consumer", "closed"}
    /\ \A t \in Turns : InProgress(t) => ENABLED TurnStep(t)

\* In turn 1 the store refused the user's utterance, reasoning failed and the
\* synthesis of the fallback reply failed; the next transcript was accepted.
C29_Witness ==
    /\ \E i \in StoreCalls("user", 1) : ~memory[i].stored
    /\ agentTask[1] = "failed"
    /\ outcome[1] = "fb_tts_failed"
    /\ HasFrame("transcription", 2)

\* C31: the text generate_audio hands to the Speech Synthesis Source is at
\* most max_chars characters long, for every text and every budget.
C31_WithinBudget ==
    generate_audio.pc = "requested"
        => Len(generate_audio.tts_text) <= generate_audio.max_chars

\* C32: truncation affects speech only.  Every agent entry handed to the
\* Memory Store carries the full reasoning result of its turn, and in a turn
\* that completed the agent_response sent to the peer carries the same full
\* text, character for character, whatever its length.
C32_FullTextShown ==
    \A t \in Turns :
      /\ \A i \in StoreCalls("agent", t) : memory[i].text = response_text(t)
      /\ outcome[t] = "completed" =>
           /\ Cardinality(StoreCalls("agent", t)) = 1
           /\ CountFrames("agent_response", t) = 1
           /\ \A i \in 1..Len(sent) :
                (sent[i].type = "agent_response" /\ sent[i].turn = t) =>
                  /\ Characters(sent[i].text) = FullReply[t]
                  /\ \A j \in StoreCalls("agent", t) :
                       Characters(sent[i].text) = Characters(memory[j].text)
\* A turn whose reply exceeds the budget has completed: the peer and the store
\* got the whole reply, synthesis was handed a shorter text.
C32_Witness ==
    \E t \in Turns :
      /\ outcome[t] = "completed"
      /\ Len(FullReply[t]) > DEFAULT_MAX_CHARS
      /\ Len(ReplyCall[t].tts_text) < Len(FullReply[t])
      /\ \E i \in StoreCalls("agent", t) :
           memory[i].stored /\ memory[i].text = response_text(t)
      /\ \E i \in 1..Len(sent) :
           sent[i] = Frame("agent_response", t, response_text(t))

\* C33: turns are strictly serialized by the queue consumer.  The queue is
\* read again only after process_transcription has returned for the previous
\* transcript and its reasoning and synthesis tasks have ended, so a turn has
\* started only when every earlier turn is over, and every frame of an
\* earlier turn precedes the transcription notice of a later one.
C33_TurnsSerialized ==
    /\ [][\A t \in Turns :
            StartTurn(t) =>
              \A u \in Turns :
                /\ ~InProgress(u)
                /\ agentTask[u] # "running"
                /\ ttsTask[u] # "running"]_vars
    /\ [](\A t, u \in Turns : (u < t /\ pc[t] # "idle") => pc[u] = "returned")
    /\ [](\A i, j \in 1..Len(sent) :
            (/\ sent[i].type = "transcription"
             /\ sent[j].turn # NoTask
             /\ sent[j].turn < sent[i].turn) => j < i)
\* The second transcript arrived while the first turn was synthesising; its
\* notice was sent after the first turn's tts_end.
C33_Witness ==
    /\ arrived[2].stage = "Synthesize"
    /\ arrived[2].turn = 1
    /\ outcome[1] = "completed"
    /\ HasFrame("tts_end", 1)
    /\ HasFrame("transcription", 2)

\* C34: every tts_start is followed, within its turn, by tts_end or
\* tts_error, unless the turn is interrupted or the session is torn down.
\* Stated for a turn that has returned, after which it sends nothing more:
\* while the session is open and the turn was neither interrupted nor
\* cancelled, each tts_start of the turn has its tts_end or tts_error.
C34_TtsStartAnswered ==
    \A t \in Turns :
      (/\ pc[t] = "returned"
       /\ outcome[t] \notin {"interrupted", "cancelled"}
       /\ peer = "open"
       /\ mpc = "loop")
      => CountFrames("tts_start", t)
           <= CountFrames("tts_end", t) + CountFrames("tts_error", t)
\* C35: a dequeued transcript that is empty or whitespace-only has no
\* effect.  The step that takes it off the queue sends nothing, stores
\* nothing, touches no task and leaves the interruption signal and
\* last_interruption_time as they are, and its turn is over at once: it
\* never has a frame, a store call or a task.
C35_BlankHasNoEffect ==
    /\ [][\A t \in Turns :
            (/\ pc[t] = "idle"
             /\ pc'[t] # "idle"
             /\ \A i \in 1..Len(user_text'[t]) : IsSpace(user_text'[t][i]))
            => /\ sent' = sent
               /\ memory' = memory
               /\ interruption_event' = interruption_event
               /\ last_interruption_time' = last_interruption_time
               /\ agentTask' = agentTask
               /\ ttsTask' = ttsTask
               /\ current_agent_task' = current_agent_task
               /\ current_tts_task' = current_tts_task
               /\ pc'[t] = "returned"]_vars
    /\ [](\A t \in Turns :
            (/\ pc[t] # "idle"
             /\ \A i \in 1..Len(user_text[t]) : IsSpace(user_text[t][i]))
            => /\ pc[t] = "returned"
               /\ FramesOf(t) = <<>>
               /\ TurnStoreCalls(t) = {}
               /\ agentTask[t] = "none"
               /\ ttsTask[t] = "none")
\* A whitespace-only transcript was dequeued after a completed turn.
C35_Witness ==
    /\ outcome[1] = "completed"
    /\ user_text[2] = <<" ">>
    /\ pc[2] = "returned"

====
